---- MODULE Spec2Model ----
(***************************************************************************)
(* A model of analyze_highest_grossing_films (api/tools.py): one call of   *)
(* the tool, from scraping and cleaning the table to the returned list.    *)
(* Text is modelled as TLA+ strings, processed character by character.     *)
(***************************************************************************)
EXTENDS Integers, Sequences, FiniteSets, TLC

VARIABLES source, questions, pc, df, answers, qi, exc, uriLen, result, figs

vars == <<source, questions, pc, df, answers, qi, exc, uriLen, result, figs>>

\* ------------------------------------------------------------------ bounds

MaxRows == 2
MaxQuestions == 2

\* --------------------------------------------------------------- constants

CountThreshold == 2000000000
EarliestThreshold == 1500000000
MaxUriLen == 100000

url == "https://example.org/films"

\* ------------------------------------------------------------ text helpers

Char(s, i) == SubSeq(s, i, i)

Digits == "0123456789"
UpperCase == "ABCDEFGHIJKLMNOPQRSTUVWXYZ"
LowerCase == "abcdefghijklmnopqrstuvwxyz"

IsDigit(c) == \E i \in 1..Len(Digits) : Char(Digits, i) = c

DigitVal(c) == (CHOOSE i \in 1..Len(Digits) : Char(Digits, i) = c) - 1

AllDigits(s) == \A i \in 1..Len(s) : IsDigit(Char(s, i))

\* str.lower() of one character
ToLower == [i \in 1..Len(UpperCase) |-> Char(LowerCase, i)]
UpperIndex(c) == {i \in 1..Len(UpperCase) : Char(UpperCase, i) = c}
LowerChar(c) ==
    IF UpperIndex(c) = {} THEN c ELSE ToLower[CHOOSE i \in UpperIndex(c) : TRUE]

RECURSIVE Lower(_)
Lower(s) == IF Len(s) = 0 THEN ""
            ELSE LowerChar(Char(s, 1)) \o Lower(SubSeq(s, 2, Len(s)))

\* the Python test  sub in s
Contains(s, sub) ==
    \E i \in 1..(Len(s) - Len(sub) + 1) : SubSeq(s, i, i + Len(sub) - 1) = sub

\* str.replace(c, ''): every occurrence of the character c removed
RECURSIVE RemoveChar(_, _)
RemoveChar(s, c) ==
    IF Len(s) = 0 THEN ""
    ELSE (IF Char(s, 1) = c THEN "" ELSE Char(s, 1))
         \o RemoveChar(SubSeq(s, 2, Len(s)), c)

\* the length of the match of \[\d+\] at the start of s, 0 when there is none
FootnoteLen(s) ==
    IF Len(s) >= 3 /\ Char(s, 1) = "["
    THEN LET ends == {j \in 3..Len(s) :
                        /\ Char(s, j) = "]"
                        /\ AllDigits(SubSeq(s, 2, j - 1))}
         IN IF ends = {} THEN 0 ELSE CHOOSE j \in ends : TRUE
    ELSE 0

\* str.replace(r'\[\d+\]', '', regex=True)
RECURSIVE RemoveFootnotes(_)
RemoveFootnotes(s) ==
    IF Len(s) = 0 THEN ""
    ELSE IF FootnoteLen(s) > 0
         THEN RemoveFootnotes(SubSeq(s, FootnoteLen(s) + 1, Len(s)))
         ELSE Char(s, 1) \o RemoveFootnotes(SubSeq(s, 2, Len(s)))

RECURSIVE DigitsValue(_)
DigitsValue(s) ==
    IF Len(s) = 0 THEN 0
    ELSE 10 * DigitsValue(SubSeq(s, 1, Len(s) - 1)) + DigitVal(Char(s, Len(s)))

\* ---------------------------------------------------------------- parsing

\* a cell of the scraped table is a text or missing; a numeric value is a
\* number [num |-> n] or NaN
Text(s) == [text |-> s]
Missing == [missing |-> TRUE]
NaN == [nan |-> TRUE]
ValueError == [exc |-> "could not convert string to float"]

\* .astype(str): a missing cell becomes the text "nan"
AsStr(cell) == IF cell = Missing THEN "nan" ELSE cell.text

\* the text of a Worldwide gross cell after the three replacements
CleanGrossText(cell) ==
    RemoveChar(RemoveChar(RemoveFootnotes(AsStr(cell)), "$"), ",")

\* .astype(float) of one text: a number, NaN for "nan", or a ValueError
ParseFloat(s) ==
    IF s = "nan" THEN NaN
    ELSE IF Len(s) > 0 /\ AllDigits(s) THEN [num |-> DigitsValue(s)]
    ELSE ValueError

\* pd.to_numeric(errors='coerce') of one cell: what does not parse is NaN
ToNumeric(cell) ==
    IF cell = Missing THEN NaN
    ELSE IF Len(cell.text) > 0 /\ AllDigits(cell.text)
         THEN [num |-> DigitsValue(cell.text)]
         ELSE NaN

\* ------------------------------------------------------------ the raw table

AllCols == {"Title", "Worldwide gross", "Year", "Rank", "Peak"}
NumericCols == {"Worldwide gross", "Year", "Rank", "Peak"}

RawRow(title, gross, year, rank, peak) ==
    ("Title" :> title) @@ ("Worldwide gross" :> gross) @@ ("Year" :> year)
    @@ ("Rank" :> rank) @@ ("Peak" :> peak)

\* the rows a scraped table is made of: clean rows on both sides of the two
\* thresholds, a gross with a footnote marker, a gross that is no number, a
\* missing gross, a Year and a Peak that are no numbers
RawRows ==
    { RawRow(Text("A"), Text("$2,100,000,000"), Text("2019"), Text("1"), Text("1")),
      RawRow(Text("B"), Text("$2,000,000,000[5]"), Text("1997"), Text("2"), Text("3")),
      RawRow(Text("C"), Text("$1,500,000,000"), Text("2015"), Text("3"), Text("1")),
      RawRow(Text("D"), Text("T$2,200,000,000"), Text("2009"), Text("1"), Text("2")),
      RawRow(Text("E"), Missing, Text("2012"), Text("2"), Text("2")),
      RawRow(Text("F"), Text("$1,600,000,000"), Text("TBA"), Text("3"), Text("4TS")) }

ColumnSets == {AllCols, AllCols \ {"Peak"}, AllCols \ {"Title"}}

SeqsUpTo(S, n) == UNION {[1..k -> S] : k \in 0..n}

\* what pd.read_html(url) finds at the locator: no table (or no answer), or
\* a first table with its columns and rows
Sources ==
    {[fetch |-> "fail", cols |-> {}, rows |-> <<>>]}
    \cup {[fetch |-> "ok", cols |-> c,
           rows |-> [i \in DOMAIN rs |-> [col \in c |-> rs[i][col]]]] :
             c \in ColumnSets, rs \in SeqsUpTo(RawRows, MaxRows)}

Questions ==
    { "How many $2 bn movies were released?",
      "Which is the earliest film that grossed over $1.5 bn?",
      "Draw a scatterplot; what is the correlation between Rank and Peak",
      "Draw a scatterplot of Rank and Peak",
      "what is the weather" }

\* ------------------------------------------------- Part 1: scrape and clean

Raise(msg) == [exc |-> msg]
Raised(o) == "exc" \in DOMAIN o

\* the two conversions of lines 26-29, computed once for each cell of the model
Cells == {r[c] : r \in RawRows, c \in AllCols}
GrossOf == [cell \in Cells |-> ParseFloat(CleanGrossText(cell))]
NumericOf == [cell \in Cells |-> ToNumeric(cell)]

\* one row after lines 26-29: the numeric columns converted, Title as it is
ConvertRow(row) ==
    [col \in DOMAIN row |->
        IF col = "Worldwide gross" THEN GrossOf[row[col]]
        ELSE IF col \in NumericCols THEN NumericOf[row[col]]
        ELSE row[col]]

\* one row of the cleaned table: the numbers themselves
NumberRow(row) ==
    [col \in DOMAIN row |-> IF col \in NumericCols THEN row[col].num ELSE row[col]]

\* df.dropna(subset=['Year', 'Rank', 'Peak', 'Worldwide gross'])
DropNa(rows) ==
    LET Whole(row) == \A col \in NumericCols : row[col] # NaN
        kept == SelectSeq(rows, Whole)
    IN [i \in DOMAIN kept |-> NumberRow(kept[i])]

\* lines 22-32: the cleaned table, or the exception that ends the call
Clean(src) ==
    IF src.fetch # "ok" THEN Raise("No tables found")
    ELSE IF "Worldwide gross" \notin src.cols THEN Raise("'Worldwide gross'")
    ELSE IF \E i \in DOMAIN src.rows :
               GrossOf[src.rows[i]["Worldwide gross"]] = ValueError
         THEN Raise(ValueError.exc)
    ELSE IF "Year" \notin src.cols THEN Raise("'Year'")
    ELSE IF "Rank" \notin src.cols THEN Raise("'Rank'")
    ELSE IF "Peak" \notin src.cols THEN Raise("'Peak'")
    ELSE [cols |-> src.cols,
          rows |-> DropNa([i \in DOMAIN src.rows |-> ConvertRow(src.rows[i])])]

\* ------------------------------------------------------------ answer items

IntItem(n) == [int |-> n]
StrItem(s) == [str |-> s]
FloatItem(cov, vx, vy) == [cov |-> cov, varx |-> vx, vary |-> vy]
NanItem == [float |-> "nan"]
UriItem(prefix, b64len) == [prefix |-> prefix, b64len |-> b64len]

LoadErrorText(u, e) == "Failed to scrape or clean data from " \o u \o ": " \o e
QuestionErrorText(q, e) == "Error processing question '" \o q \o "': " \o e
TooLargeText == "Error: Generated image is too large."

NoDF == [unbound |-> TRUE]

\* --------------------------------------------------- the question branches

Value(item) == [val |-> item]

Gross(row) == row["Worldwide gross"]

\* line 39, 43, 47, 50: the branch of the if/elif chain a question takes,
\* "none" when no condition holds (the chain has no else)
Classify(q) ==
    LET q_lower == Lower(q)
    IN IF Contains(q_lower, "how many $2 bn movies") THEN "count"
       ELSE IF Contains(q_lower, "earliest film that grossed over $1.5 bn")
            THEN "earliest"
       ELSE IF Contains(q_lower, "correlation between rank and peak")
            THEN "correlation"
       ELSE IF Contains(q_lower, "draw a scatterplot") THEN "scatter"
       ELSE "none"

\* the branch of each question of the model, computed once
BranchOf == [qq \in Questions |-> Classify(qq)]

\* line 41
CountAnswer(d) ==
    LET Above(row) == Gross(row) > CountThreshold
    IN Value(IntItem(Len(SelectSeq(d.rows, Above))))

TitleItem(cell) == IF cell = Missing THEN NanItem ELSE StrItem(cell.text)

\* EarliestOutcomes with the filter >= in place of >
EarliestOutcomesInclusive(d) ==
    LET Above(row) == Gross(row) >= EarliestThreshold
        filtered_df == SelectSeq(d.rows, Above)
        first == {i \in DOMAIN filtered_df :
                    \A j \in DOMAIN filtered_df :
                        filtered_df[i]["Year"] <= filtered_df[j]["Year"]}
    IN IF filtered_df = <<>>
       THEN {Raise("single positional indexer is out-of-bounds")}
       ELSE IF "Title" \notin d.cols THEN {Raise("'Title'")}
       ELSE {Value(TitleItem(filtered_df[i]["Title"])) : i \in first}

\* lines 44-45: sort_values('Year') is not a stable sort, so among rows of the
\* same Year any may come first
EarliestOutcomes(d) ==
    LET Above(row) == Gross(row) > EarliestThreshold
        filtered_df == SelectSeq(d.rows, Above)
        first == {i \in DOMAIN filtered_df :
                    \A j \in DOMAIN filtered_df :
                        filtered_df[i]["Year"] <= filtered_df[j]["Year"]}
    IN IF filtered_df = <<>>
       THEN {Raise("single positional indexer is out-of-bounds")}
       ELSE IF "Title" \notin d.cols THEN {Raise("'Title'")}
       ELSE {Value(TitleItem(filtered_df[i]["Title"])) : i \in first}

\* df['Rank'], df['Peak']: one column as a sequence
Column(d, col) == [i \in DOMAIN d.rows |-> d.rows[i][col]]

RECURSIVE Sum(_)
Sum(xs) == IF xs = <<>> THEN 0 ELSE Head(xs) + Sum(Tail(xs))

Products(xs, ys) == [i \in DOMAIN xs |-> xs[i] * ys[i]]

\* line 48, Series.corr: Pearson's r is cov / sqrt(varx * vary), each scaled
\* by n * n; it is NaN when that divisor is 0 or there are fewer than 2 rows
Corr(xs, ys) ==
    LET n == Len(xs)
        varx == n * Sum(Products(xs, xs)) - Sum(xs) * Sum(xs)
        vary == n * Sum(Products(ys, ys)) - Sum(ys) * Sum(ys)
        cov == n * Sum(Products(xs, ys)) - Sum(xs) * Sum(ys)
    IN IF n < 2 \/ varx = 0 \/ vary = 0
       THEN NanItem
       ELSE FloatItem(cov, varx, vary)

CorrelationAnswer(d) == Value(Corr(Column(d, "Rank"), Column(d, "Peak")))

\* line 60, stats.linregress: empty input raises; whether identical x values
\* raise depends on the installed scipy (strict)
Linregress(d, strict) ==
    IF d.rows = <<>> THEN Raise("Inputs must not be empty.")
    ELSE IF strict /\ \A i, j \in DOMAIN d.rows :
                        Column(d, "Rank")[i] = Column(d, "Rank")[j]
         THEN Raise("Cannot calculate a linear regression if all x values are identical")
    ELSE Value("fit")

\* line 66, plt.savefig: the number of bytes of the PNG it writes, when it
\* does not fail; the sizes lie on both sides of the limit of line 72
PngSizes == {20000, 74982, 74983}

\* line 68, base64.b64encode: 4 characters for every 3 bytes, padded
Base64Len(n) == 4 * ((n + 2) \div 3)

DataUriPrefix == "data:image/png;base64,"

\* ImageAnswer with the limit applied to the base64 text alone, the prefix
\* of the URI left out of the length
ImageAnswerPayloadOnly(b64len) ==
    IF b64len > MaxUriLen
    THEN StrItem(TooLargeText)
    ELSE UriItem(DataUriPrefix, b64len)

\* lines 71-75
ImageAnswer(b64len) ==
    IF Len(DataUriPrefix) + b64len > MaxUriLen
    THEN StrItem(TooLargeText)
    ELSE UriItem(DataUriPrefix, b64len)

\* lines 52-75: what the branch yields, whether line 69 closed the figure
\* that line 53 opened, and the length of data_uri when line 71 built it
ScatterOutcome(d, strict, saved, png) ==
    LET fit == Linregress(d, strict)
    IN IF Raised(fit) THEN [out |-> fit, closed |-> FALSE, uri |-> 0]
       ELSE IF ~saved
            THEN [out |-> Raise("savefig failed"), closed |-> FALSE, uri |-> 0]
       ELSE [out |-> Value(ImageAnswer(Base64Len(png))), closed |-> TRUE,
             uri |-> Len(DataUriPrefix) + Base64Len(png)]

\* lines 76-77: an exception of the branch becomes an error text
Caught(q, o) == IF Raised(o) THEN StrItem(QuestionErrorText(q, o.exc)) ELSE o.val

NoExc == "None"
ExcOf(o) == IF Raised(o) THEN o.exc ELSE NoExc

\* ------------------------------------------------------------------ actions

Init ==
    /\ source \in Sources
    /\ questions \in SeqsUpTo(Questions, MaxQuestions)
    /\ pc = "start"
    /\ df = NoDF
    /\ answers = <<>>
    /\ qi = 0
    /\ exc = NoExc
    /\ uriLen = 0
    /\ result = <<>>
    /\ figs = 0

\* Load with the except clause of line 31 reporting the failure as the first
\* answer and going on to the questions with an empty table
LoadThenLoop ==
    /\ pc = "start"
    /\ LET c == Clean(source)
       IN IF Raised(c)
          THEN /\ answers' = <<StrItem(LoadErrorText(url, c.exc))>>
               /\ exc' = c.exc
               /\ df' = [cols |-> AllCols, rows |-> <<>>]
          ELSE /\ df' = c
               /\ UNCHANGED <<answers, exc>>
    /\ pc' = "loop"
    /\ UNCHANGED <<source, questions, result, qi, uriLen, figs>>

\* lines 22-35
Load ==
    /\ pc = "start"
    /\ LET c == Clean(source)
       IN IF Raised(c)
          THEN /\ result' = <<StrItem(LoadErrorText(url, c.exc))>>
               /\ exc' = c.exc
               /\ pc' = "done"
               /\ UNCHANGED df
          ELSE /\ df' = c
               /\ pc' = "loop"
               /\ UNCHANGED <<result, exc>>
    /\ UNCHANGED <<source, questions, answers, qi, uriLen, figs>>

\* the question the loop of line 36 is at
InLoop == pc = "loop" /\ qi < Len(questions)
q == questions[qi + 1]

\* one iteration of the loop: the outcome o of the branch is appended, or
\* the text of the exception it raised
Iterate(o) ==
    /\ answers' = Append(answers, Caught(q, o))
    /\ exc' = ExcOf(o)
    /\ qi' = qi + 1
    /\ UNCHANGED <<source, questions, pc, df, result>>

\* lines 39-42
AnswerCount ==
    /\ InLoop
    /\ BranchOf[q] = "count"
    /\ Iterate(CountAnswer(df))
    /\ UNCHANGED <<uriLen, figs>>

\* lines 43-46
AnswerEarliest ==
    /\ InLoop
    /\ BranchOf[q] = "earliest"
    /\ \E o \in EarliestOutcomes(df) : Iterate(o)
    /\ UNCHANGED <<uriLen, figs>>

\* lines 47-49
AnswerCorrelation ==
    /\ InLoop
    /\ BranchOf[q] = "correlation"
    /\ Iterate(CorrelationAnswer(df))
    /\ UNCHANGED <<uriLen, figs>>

\* lines 50-75
AnswerScatter ==
    /\ InLoop
    /\ BranchOf[q] = "scatter"
    /\ \E strict \in BOOLEAN, saved \in BOOLEAN, png \in PngSizes :
          LET s == ScatterOutcome(df, strict, saved, png)
          IN /\ Iterate(s.out)
             /\ figs' = IF s.closed THEN figs ELSE figs + 1
             /\ uriLen' = IF Raised(s.out) THEN uriLen ELSE s.uri

\* no condition of the chain holds: the iteration appends nothing
NoBranch ==
    /\ InLoop
    /\ BranchOf[q] = "none"
    /\ qi' = qi + 1
    /\ exc' = NoExc
    /\ UNCHANGED <<source, questions, pc, df, answers, uriLen, result, figs>>

\* line 79
Return ==
    /\ pc = "loop"
    /\ qi = Len(questions)
    /\ result' = answers
    /\ pc' = "done"
    /\ UNCHANGED <<source, questions, df, answers, qi, exc, uriLen, figs>>

Next ==
    \/ Load
    \/ AnswerCount
    \/ AnswerEarliest
    \/ AnswerCorrelation
    \/ AnswerScatter
    \/ NoBranch
    \/ Return

Spec == Init /\ [][Next]_vars

\* ----------------------------------------------------------------- claims

StartsWith(s, prefix) == Len(s) >= Len(prefix) /\ SubSeq(s, 1, Len(prefix)) = prefix

IsStr(item) == "str" \in DOMAIN item

\* item is the error text of lines 76-77 about question qq
IsErrorFor(qq, item) ==
    IsStr(item) /\ StartsWith(item.str, "Error processing question '" \o qq \o "': ")

\* item is the failure text of line 32
IsLoadError(item) ==
    IsStr(item) /\ StartsWith(item.str, "Failed to scrape or clean data from ")

Loaded == df # NoDF

\* the question whose iteration has just ended, and the last answer
Last(xs) == xs[Len(xs)]
After(branch) == qi >= 1 /\ BranchOf[questions[qi]] = branch

\* C1: for a loaded table and a non-empty question list, the returned list is
\* as long as the question list, and the item at index i is the answer or
\* the error item of question i.
C1_OneItemPerQuestion ==
    (pc = "done" /\ Loaded /\ questions # <<>>) =>
        /\ Len(result) = Len(questions)
        /\ \A i \in DOMAIN questions :
              \/ IsErrorFor(questions[i], result[i])
              \/ BranchOf[questions[i]] = "count" /\ "int" \in DOMAIN result[i]
              \/ BranchOf[questions[i]] = "earliest" /\ IsStr(result[i])
              \/ BranchOf[questions[i]] = "correlation"
                   /\ ("cov" \in DOMAIN result[i] \/ "float" \in DOMAIN result[i])
              \/ BranchOf[questions[i]] = "scatter"
                   /\ (IsStr(result[i]) \/ "b64len" \in DOMAIN result[i])

\* C2: a question that matches no trigger phrase yields, at its own index, an
\* error item that references it.
C2_UnrecognizedIsError ==
    (pc = "done" /\ Loaded) =>
        \A i \in DOMAIN questions :
            BranchOf[questions[i]] = "none" =>
                i \in DOMAIN result /\ IsErrorFor(questions[i], result[i])

\* the Worldwide gross cells whose cleaned text is no float
NoFloat ==
    {cell \in Cells : LET t == CleanGrossText(cell)
                      IN t # "nan" /\ ~(Len(t) > 0 /\ AllDigits(t))}

\* the load of the source fails: nothing fetched, a required column missing,
\* or a Worldwide gross text that is no float
LoadFails ==
    \/ source.fetch = "fail"
    \/ ~(NumericCols \subseteq source.cols)
    \/ \E i \in DOMAIN source.rows : source.rows[i]["Worldwide gross"] \in NoFloat

\* C3: when fetching or cleaning fails, the call returns exactly one error
\* item and the question loop is never entered, however many questions there
\* are.
C3_LoadFailureIsSingleError ==
    LoadFails =>
        /\ pc # "loop"
        /\ qi = 0
        /\ answers = <<>>
        /\ pc = "done" => Len(result) = 1 /\ IsLoadError(result[1])

C3_Witness ==
    /\ pc = "done"
    /\ LoadFails
    /\ source.fetch = "ok"
    /\ NumericCols \subseteq source.cols
    /\ Len(questions) >= 2
    /\ IsLoadError(result[1])

\* C4: when a question's execution raises, exactly one error item with the
\* question's text and the failure message is appended at the question's
\* position, the earlier answers are unchanged, and the loop moves on to the
\* next question.
C4_ExceptionIsolated ==
    [][(InLoop /\ exc' # NoExc) =>
          /\ answers' = Append(answers, StrItem(QuestionErrorText(q, exc')))
          /\ Len(answers') = qi + 1
          /\ qi' = qi + 1
          /\ pc' = "loop"]_vars

\* C5: no item is a data URI of more than 100,000 characters; a scatterplot
\* whose data URI is longer is answered by the literal error text, and one
\* whose data URI is at most that long by the URI, which begins with
\* "data:image/png;base64,".
C5_UriWithinLimit ==
    /\ \A i \in DOMAIN answers :
          "b64len" \in DOMAIN answers[i] =>
              /\ answers[i].prefix = "data:image/png;base64,"
              /\ Len(answers[i].prefix) + answers[i].b64len <= 100000
    /\ \A i \in DOMAIN result :
          "b64len" \in DOMAIN result[i] =>
              Len(result[i].prefix) + result[i].b64len <= 100000
    /\ (After("scatter") /\ exc = NoExc) =>
          Last(answers) =
              IF uriLen > 100000
              THEN [str |-> "Error: Generated image is too large."]
              ELSE [prefix |-> "data:image/png;base64,", b64len |-> uriLen - 22]

C5_Witness ==
    /\ pc = "done"
    /\ \E i \in DOMAIN result : result[i] = [str |-> "Error: Generated image is too large."]
    /\ \E i \in DOMAIN result :
          "b64len" \in DOMAIN result[i] /\ result[i].b64len + 22 = 99998
    /\ uriLen > 100000

\* C6: the answer to an earliest-film question is the Title of a row whose
\* Year is the least among the rows with Worldwide gross > 1,500,000,000;
\* with no such row it is an error item for the question; either way one
\* item is appended and the loop moves on.
C6_EarliestIsMinYear ==
    [][(InLoop /\ BranchOf[q] = "earliest") =>
          LET over == {i \in DOMAIN df.rows : df.rows[i]["Worldwide gross"] > 1500000000}
          IN /\ Len(answers') = Len(answers) + 1
             /\ SubSeq(answers', 1, Len(answers)) = answers
             /\ qi' = qi + 1
             /\ pc' = "loop"
             /\ over = {} => IsErrorFor(q, Last(answers'))
             /\ (over # {} /\ "Title" \in df.cols) =>
                   \E i \in over :
                      /\ \A j \in over : df.rows[i]["Year"] <= df.rows[j]["Year"]
                      /\ Last(answers') = [str |-> df.rows[i]["Title"].text]]_vars

C6_Witness ==
    /\ After("earliest")
    /\ "Title" \in df.cols
    /\ Len(df.rows) >= 2
    /\ df.rows[1]["Worldwide gross"] > 1500000000
    /\ df.rows[2]["Worldwide gross"] > 1500000000
    /\ df.rows[2]["Year"] < df.rows[1]["Year"]
    /\ Last(answers) = [str |-> df.rows[2]["Title"].text]

\* the correlation is undefined: fewer than 2 rows, or a Rank or Peak column
\* of zero variance
Degenerate ==
    \/ Len(df.rows) < 2
    \/ \A i, j \in DOMAIN df.rows : df.rows[i]["Rank"] = df.rows[j]["Rank"]
    \/ \A i, j \in DOMAIN df.rows : df.rows[i]["Peak"] = df.rows[j]["Peak"]

\* C7: a correlation question over fewer than 2 rows or a zero-variance Rank
\* or Peak column is answered by an error item; a NaN is never an answer.
C7_NoNanCorrelation ==
    /\ (After("correlation") /\ Degenerate) => IsErrorFor(questions[qi], Last(answers))
    /\ \A i \in DOMAIN answers : answers[i] # NanItem

\* a raw row all of whose four numeric cells convert to a number
ValidRow(row) ==
    /\ "num" \in DOMAIN ParseFloat(CleanGrossText(row["Worldwide gross"]))
    /\ \A col \in {"Year", "Rank", "Peak"} : ToNumeric(row[col]) # NaN

\* C8: cleaning drops the invalid rows one by one and keeps the others: when
\* a table with the required columns was fetched, the load succeeds and the
\* cleaned table holds exactly the valid raw rows, so one Worldwide gross
\* text that is no float does not fail the load.
C8_InvalidRowsDropped ==
    (pc # "start" /\ source.fetch = "ok" /\ NumericCols \subseteq source.cols) =>
        /\ Loaded
        /\ Len(df.rows) = Len(SelectSeq(source.rows, ValidRow))

\* C9: a table with no usable row after cleaning is fatal to the call: one
\* failure item is returned and no question is processed.
C9_EmptyTableIsFatal ==
    (pc = "done" /\ Loaded /\ df.rows = <<>>) =>
        /\ Len(result) = 1
        /\ IsLoadError(result[1])
        /\ qi = 0

\* C10: every figure a scatterplot question opens is closed before the
\* handling of that question ends, also when the fit, the drawing or the
\* encoding raises.
C10_FiguresReleased == figs = 0

====
